---------------------------- MODULE Spec2Model ----------------------------
(***************************************************************************)
(* NetConnect: WiFi connect + captive-portal login, and the installation   *)
(* of a per-OS autostart script.                                           *)
(*                                                                         *)
(* Two specifications:                                                     *)
(*   Spec       one host (an OS, a home directory, an autostart store) on  *)
(*              which the programs of the repository are run one after     *)
(*              another: main.py (menu + setup), the interactive WiFi      *)
(*              connector, and the generated startup script.               *)
(*   LoginSpec  calls of net/portalAuth.login: the calling thread and the  *)
(*              Spinner thread, interleaved.                               *)
(***************************************************************************)
EXTENDS Integers, Sequences, FiniteSets, TLC

VARIABLES
    \* ---- the host: survives from one program run to the next
    osType,        \* platform.system()
    probeResp,     \* what the connectivity-check URL answers on this network
    credDir,       \* ~/.wifi_auto_login exists
    credFile,      \* ~/.wifi_auto_login/credentials.json
    scriptsDir,    \* StartupGenerator.scripts_dir exists
    scriptFile,    \* StartupGenerator.script_path
    autostart,     \* registry Run value / .desktop file / LaunchAgent plist
    agentLoaded,   \* launchd has the agent loaded (macOS)
    runs,          \* programs started so far
    regCount,      \* history: registrations that wrote the autostart entry
    firstEntry,    \* history: the autostart entry as the first registration left it
    \* ---- one program run
    prog,          \* which program runs: "none", "main", "connect", "script"
    pc,            \* its position
    exitCode,      \* its exit code, once pc = "exited"
    unhandled,     \* it ended by an exception nobody caught
    effects,       \* directories created, files written, requests sent in this run
    setupErr,      \* the setup steps that failed in this run
    regPre,        \* the autostart entry existed when registration began
    regResult,     \* what _create_<os>_startup returned ("none" before)
    loadRc,        \* how 'launchctl load' ended ("none": not run)
    posts,         \* login POSTs issued in this run
    probes,        \* portal probes (GET) issued in this run
    cmds,          \* native commands invoked in this run
    connectRc,     \* how the native connect command ended ("none" before it ran)
    cursorHidden,  \* the terminal cursor is hidden
    report,        \* the last status line the generated script printed
    stages,        \* the stages the generated script has gone through, in order
    jq,            \* 'command -v jq' on this run: "present", "absent" ("unknown" before)
    setupRet,      \* the flag StartupGenerator.setup_startup returned ("none" before)
    needsLogin,    \* what NeedsLogin returned (ProbeSpec)
    \* ---- portalAuth.login and its Spinner (LoginSpec)
    lpc,           \* position of the thread that called login
    largs,         \* login's arguments
    busy,          \* Spinner.busy
    spinPc,        \* position of the spinner thread
    spinIdx,       \* index into spinner_cycle of the next frame
    out,           \* what was last written to stdout, and by whom
    doneLine,      \* the 'Login Attempted' line was written
    postResult,    \* how requests.post ended
    loginRet,      \* what login returned
    logins,        \* calls of login so far
    spun,          \* the spinner thread wrote a frame during this call
    lateFrames,    \* frames the spinner wrote since stop() cleared busy
    retOf          \* history: the values login returned, per way the POST ended

hostVars  == <<osType, probeResp, credDir, credFile, scriptsDir, scriptFile,
               autostart, agentLoaded, runs, regCount, firstEntry>>
runVars   == <<prog, pc, exitCode, unhandled, effects, setupErr, regPre,
               regResult, loadRc, probes, cmds, connectRc, cursorHidden, report,
               stages, jq, setupRet, needsLogin>>
loginVars == <<lpc, largs, busy, spinPc, spinIdx, out, doneLine, postResult,
               loginRet, logins, spun, lateFrames, retOf>>
vars      == <<hostVars, runVars, posts, loginVars>>

-----------------------------------------------------------------------------
(* Bounds *)

\* programs run on the host in one behaviour
MaxRuns == 3
\* calls of login in one behaviour
MaxLogins == 2

-----------------------------------------------------------------------------
(* Text: a string is a sequence of one-character strings *)

\* white space, as str.strip() and String.Trim() see it
IsSpace(c) == c \in {" ", "\n", "\t"}

RECURSIVE LStrip(_)
LStrip(s) == IF s # <<>> /\ IsSpace(Head(s)) THEN LStrip(Tail(s)) ELSE s

RECURSIVE RStrip(_)
RStrip(s) ==
    IF s # <<>> /\ IsSpace(s[Len(s)]) THEN RStrip(SubSeq(s, 1, Len(s) - 1)) ELSE s

\* str.strip() of the answers to input()
Strip(s) == RStrip(LStrip(s))

\* what the user may type at a prompt for a field
InputLines == { <<>>, <<" ">>, <<"a">>, <<" ", "a", " ">>, <<"b", " ">> }

\* what the user may type at a menu prompt
MenuLines == { <<"1">>, <<"2">>, <<" ", "3">>, <<"4">>, <<"x">>, <<>> }


-----------------------------------------------------------------------------
(* The host *)

Supported == {"Windows", "Linux", "Darwin"}
OsTypes   == Supported \cup {"FreeBSD"}

NoCreds == [exists |-> FALSE, ssid |-> <<>>, username |-> <<>>, password |-> <<>>]
Creds(s, u, p) == [exists |-> TRUE, ssid |-> s, username |-> u, password |-> p]

\* a file (or registry value): the texts written into it, in order, and its x bit
NoFile == [exists |-> FALSE, content |-> <<>>, exec |-> FALSE]

\* open(path, 'a'): a bug the code does not have
WriteFile_append(f, text) ==
    [exists |-> TRUE, content |-> Append(f.content, text), exec |-> f.exec]

\* with open(path, 'w') as f: f.write(text)  -- and reg.SetValueEx(key, name, ..)
WriteFile(f, text) == [exists |-> TRUE, content |-> <<text>>, exec |-> f.exec]

\* os.chmod(path, os.stat(path).st_mode | stat.S_IXUSR | stat.S_IXGRP)
ChmodExec(f) == [f EXCEPT !.exec = TRUE]

\* self.script_path, per OS
ScriptPath(os) ==
    CASE os = "Windows" -> "~/AppData/Local/NetConnect/wifi_connect.ps1"
      [] os = "Linux"   -> "~/.local/share/netconnect/wifi_connect.sh"
      [] os = "Darwin"  -> "~/Library/Application Support/NetConnect/wifi_connect.sh"

\* script_content of the three generators
ScriptText(os) ==
    CASE os = "Windows" -> "powershell: WiFi Auto Connect Script"
      [] os = "Linux"   -> "bash: nmcli connect; curl POST"
      [] os = "Darwin"  -> "bash: networksetup connect; curl POST"

\* _generate_connection_script: write the script, and on POSIX chmod it
GenerateScript(os, f) ==
    IF os = "Windows" THEN WriteFile(f, ScriptText(os))
    ELSE ChmodExec(WriteFile(f, ScriptText(os)))

\* the registry value's data / the .desktop text / the plist text
EntryText(os) ==
    CASE os = "Windows" ->
            <<"NetConnect", "powershell.exe -ExecutionPolicy Bypass -WindowStyle Hidden -File", ScriptPath(os)>>
      [] os = "Linux"   ->
            <<"netconnect.desktop", "Type=Application X-GNOME-Autostart-enabled=true Exec=", ScriptPath(os)>>
      [] os = "Darwin"  ->
            <<"com.netconnect.autoconnect.plist", "RunAtLoad=true KeepAlive=false ProgramArguments=", ScriptPath(os)>>

\* _create_windows_startup / _create_linux_startup / _create_macos_startup:
\* the entry they leave in the store when no call in them fails
CreateEntry(os, e) ==
    IF os = "Linux" THEN ChmodExec(WriteFile(e, EntryText(os)))
    ELSE WriteFile(e, EntryText(os))


\* the seven characters of the probe's expected body
SUCCESS == <<"s", "u", "c", "c", "e", "s", "s">>

\* what the GET of detectportal.firefox.com/success.txt can bring back
ProbeResponses ==
    { [kind |-> "throws", status |-> 0,   body |-> <<>>],
      [kind |-> "http",   status |-> 200, body |-> SUCCESS],
      [kind |-> "http",   status |-> 200, body |-> <<" ">> \o SUCCESS \o <<" ">>],
      [kind |-> "http",   status |-> 200, body |-> <<"l", "o", "g", "i", "n">>],
      [kind |-> "http",   status |-> 503, body |-> SUCCESS] }

\* String.Trim() of the probe's body
Trim(s) == Strip(s)

\* the letters of the bodies modelled, in both cases
Upper == [c \in {"s", "u", "c", "e", "l", "o", "g", "i", "n"} |->
            CASE c = "s" -> "S" [] c = "u" -> "U" [] c = "c" -> "C"
              [] c = "e" -> "E" [] c = "l" -> "L" [] c = "o" -> "O"
              [] c = "g" -> "G" [] c = "i" -> "I" [] c = "n" -> "N"]

\* a character folded to lower case
Fold(c) == IF \E l \in DOMAIN Upper : Upper[l] = c
           THEN CHOOSE l \in DOMAIN Upper : Upper[l] = c
           ELSE c

\* PowerShell's -ne on two strings: -ne is -ine, the comparison ignores case
PsNe(a, b) ==
    \/ Len(a) # Len(b)
    \/ \E i \in 1..Len(a) : Fold(a[i]) # Fold(b[i])

\* NeedsLogin of the generated Windows script: Invoke-WebRequest throws on a
\* timeout, on no answer and on every status outside 2xx
NeedsLogin(r) ==
    IF r.kind = "throws" THEN TRUE
    ELSE r.status # 200 \/ PsNe(Trim(r.body), SUCCESS)

InitRun ==
    /\ prog = "none"
    /\ pc = "idle"
    /\ exitCode = 0
    /\ unhandled = FALSE
    /\ effects = {}
    /\ setupErr = {}
    /\ regPre = FALSE
    /\ regResult = "none"
    /\ loadRc = "none"
    /\ posts = <<>>
    /\ probes = 0
    /\ cmds = <<>>
    /\ connectRc = "none"
    /\ cursorHidden = FALSE
    /\ report = "none"
    /\ stages = <<>>
    /\ jq = "unknown"
    /\ setupRet = "none"
    /\ needsLogin = FALSE

\* a fresh account on some host: nothing of the program on disk yet
InitHost ==
    /\ osType \in OsTypes
    /\ probeResp \in ProbeResponses
    /\ credDir = FALSE
    /\ credFile = NoCreds
    /\ scriptsDir = FALSE
    /\ scriptFile = NoFile
    /\ autostart = NoFile
    /\ agentLoaded = FALSE
    /\ runs = 0
    /\ regCount = 0
    /\ firstEntry = NoFile

\* the login module is not in use
LoginIdle ==
    /\ lpc = "idle"
    /\ largs = [username |-> <<>>, password |-> <<>>]
    /\ busy = FALSE
    /\ spinPc = "unborn"
    /\ spinIdx = 0
    /\ out = "none"
    /\ doneLine = FALSE
    /\ postResult = "none"
    /\ loginRet = "none"
    /\ logins = 0
    /\ spun = FALSE
    /\ lateFrames = 0
    /\ retOf = [k \in {"non200", "transport"} |-> {}]

Init == InitHost /\ InitRun /\ LoginIdle

\* the process ends with exit code c
Exit(c) ==
    /\ pc' = "exited"
    /\ exitCode' = c

\* the process dies of an exception nobody catches: traceback, exit code 1
Die ==
    /\ pc' = "exited"
    /\ exitCode' = 1
    /\ unhandled' = TRUE

\* The user (or the autostart mechanism) starts one of the programs.
Start(p) ==
    /\ pc \in {"idle", "exited"}
    /\ runs < MaxRuns
    /\ p = "script" => scriptFile.exists
    /\ runs' = runs + 1
    /\ prog' = p
    /\ pc' = "start"
    /\ exitCode' = 0
    /\ unhandled' = FALSE
    /\ effects' = {}
    /\ setupErr' = {}
    /\ regPre' = FALSE
    /\ regResult' = "none"
    /\ loadRc' = "none"
    /\ posts' = <<>>
    /\ probes' = 0
    /\ cmds' = <<>>
    /\ connectRc' = "none"
    /\ cursorHidden' = FALSE
    /\ report' = "none"
    /\ stages' = <<>>
    /\ jq' = "unknown"
    /\ setupRet' = "none"
    /\ UNCHANGED <<osType, probeResp, credDir, credFile, scriptsDir, scriptFile,
                   autostart, agentLoaded, regCount, firstEntry, needsLogin, loginVars>>


-----------------------------------------------------------------------------
(* main.py: the menu, then the startup setup *)

fsVars     == <<credDir, credFile, scriptsDir, scriptFile, autostart, agentLoaded>>
setupVars  == <<scriptsDir, scriptFile, autostart, agentLoaded, regCount, firstEntry,
                setupErr, regPre, regResult, loadRc, setupRet>>
netVars    == <<posts, probes, cmds, connectRc, cursorHidden, report, stages, jq>>
fixedVars  == <<osType, probeResp, runs, prog, needsLogin, loginVars>>

\* MenuHandler() -> UserManager.__init__: mkdir(parents=True, exist_ok=True)
UserManager_init ==
    /\ prog = "main" /\ pc = "start"
    /\ \E ok \in BOOLEAN :
          IF credDir \/ ok
          THEN /\ credDir' = TRUE
               /\ effects' = IF credDir THEN effects
                             ELSE effects \cup {"mkdir ~/.wifi_auto_login"}
               /\ pc' = "menu"
               /\ UNCHANGED <<exitCode, unhandled>>
          ELSE /\ Die
               /\ UNCHANGED <<credDir, effects>>
    /\ UNCHANGED <<credFile, setupVars, netVars, fixedVars>>

\* MenuHandler.main_menu: one choice; anything else asks again
main_menu ==
    /\ prog = "main" /\ pc = "menu"
    /\ \E line \in MenuLines :
          LET choice == Strip(line) IN
          CASE choice = <<"1">> -> pc' = "new_user" /\ UNCHANGED <<exitCode, unhandled>>
            [] choice = <<"2">> -> pc' = "existing_user" /\ UNCHANGED <<exitCode, unhandled>>
            [] choice = <<"3">> -> Exit(0) /\ UNCHANGED unhandled
            [] OTHER            -> UNCHANGED <<pc, exitCode, unhandled>>
    /\ UNCHANGED <<credDir, credFile, effects, setupVars, netVars, fixedVars>>

\* UserManager._save_credentials: open(credentials_file, "w"); json.dump
\* (ok: the file could be opened for writing)
save_credentials(data, ok) ==
    IF ok
    THEN /\ credFile' = data
         /\ effects' = effects \cup {"write credentials.json"}
         /\ pc' = "setup"
         /\ UNCHANGED <<exitCode, unhandled>>
    ELSE /\ Die
         /\ UNCHANGED <<credFile, effects>>

\* UserManager.create_new_user
create_new_user ==
    /\ prog = "main" /\ pc = "new_user"
    /\ \E l1 \in InputLines, l2 \in InputLines, l3 \in InputLines, ok \in BOOLEAN :
          LET ssid     == Strip(l1)
              username == Strip(l2)
              password == Strip(l3)
          IN  IF ssid = <<>> \/ username = <<>> \/ password = <<>>
              THEN UNCHANGED <<credFile, effects, pc, exitCode, unhandled>>
              ELSE save_credentials(Creds(ssid, username, password), ok)
    /\ UNCHANGED <<credDir, setupVars, netVars, fixedVars>>

\* UserManager.edit_existing_user
edit_existing_user ==
    /\ prog = "main" /\ pc = "existing_user"
    /\ IF ~credFile.exists
       THEN /\ pc' = "setup"
            /\ UNCHANGED <<credFile, effects, exitCode, unhandled>>
       ELSE \E line \in MenuLines, new \in InputLines, ok \in BOOLEAN :
               LET choice == Strip(line) IN
               CASE choice = <<"1">> ->
                       save_credentials([credFile EXCEPT !.ssid = Strip(new)], ok)
                 [] choice = <<"2">> ->
                       save_credentials([credFile EXCEPT !.username = Strip(new)], ok)
                 [] choice = <<"3">> ->
                       save_credentials([credFile EXCEPT !.password = Strip(new)], ok)
                 [] choice = <<"4">> ->
                       /\ pc' = "setup"
                       /\ UNCHANGED <<credFile, effects, exitCode, unhandled>>
                 [] OTHER ->
                       UNCHANGED <<credFile, effects, pc, exitCode, unhandled>>
    /\ UNCHANGED <<credDir, setupVars, netVars, fixedVars>>

\* StartupGenerator.__init__ raises OSError
StartupGenerator_init_raises == osType \notin Supported

\* StartupGenerator.setup_startup: mkdir, _generate_connection_script,
\* _create_startup_entry.  fail: the step whose system call fails; load: how
\* 'launchctl load' ends (macOS).
StartupGenerator_setup_startup(fail, load) ==
    LET dirOk    == fail # "mkdir"
        scriptOk == dirOk /\ fail # "script"
        entryOk  == scriptOk /\ fail # "entry"
    IN  /\ scriptsDir' = (scriptsDir \/ dirOk)
        /\ scriptFile' = IF scriptOk THEN GenerateScript(osType, scriptFile)
                         ELSE scriptFile
        /\ regPre' = (scriptOk /\ autostart.exists)
        /\ autostart' = IF entryOk THEN CreateEntry(osType, autostart) ELSE autostart
        /\ agentLoaded' = (agentLoaded \/ (entryOk /\ osType = "Darwin" /\ load = "ok"))
        /\ loadRc' = IF entryOk /\ osType = "Darwin" THEN load ELSE "none"
        /\ regResult' = IF ~scriptOk THEN "none"
                        ELSE IF ~entryOk THEN "False"
                        ELSE IF loadRc' = "absent" THEN "False"
                        ELSE "True"
        /\ regCount' = IF entryOk THEN regCount + 1 ELSE regCount
        /\ firstEntry' = IF entryOk /\ regCount = 0 THEN autostart' ELSE firstEntry
        /\ setupRet' = IF scriptOk THEN "True" ELSE "False"
        /\ setupErr' = CASE ~dirOk    -> {"mkdir"}
                         [] ~scriptOk -> {"script"}
                         [] ~entryOk  -> {"autostart"}
                         [] OTHER     -> {}
        /\ effects' = effects
                        \cup (IF dirOk /\ ~scriptsDir THEN {"mkdir scripts_dir"} ELSE {})
                        \cup (IF scriptOk THEN {"write script"} ELSE {})
                        \cup (IF entryOk THEN {"write autostart entry"} ELSE {})

\* main.setup_startup, and main's return
setup_startup ==
    /\ prog = "main" /\ pc = "setup"
    /\ IF StartupGenerator_init_raises
       THEN /\ setupErr' = {"unsupported"}
            /\ Exit(1)
            /\ UNCHANGED <<scriptsDir, scriptFile, autostart, agentLoaded, regCount,
                           firstEntry, regPre, regResult, loadRc, setupRet, effects>>
       ELSE /\ \E fail \in {"none", "mkdir", "script", "entry"},
                  load \in {"ok", "nonzero", "absent"} :
                  /\ fail = "mkdir" => ~scriptsDir
                  /\ load # "ok" => osType = "Darwin"
                  /\ StartupGenerator_setup_startup(fail, load)
            /\ Exit(0)
    /\ UNCHANGED <<credDir, credFile, unhandled, netVars, fixedVars>>


-----------------------------------------------------------------------------
(* wifi/wifiConnector.py: get_connector(ssid).connect() *)

mainVars == <<fsVars, regCount, firstEntry, effects, setupErr, regPre, regResult, loadRc,
              setupRet>>

\* the command line each connector hands to subprocess.run
\* (MacOSWiFiConnector.interface is "Wi-Fi")
ConnectorArgv(os, ssid) ==
    CASE os = "Windows" -> <<"netsh", "wlan", "connect", "name=", ssid>>
      [] os = "Linux"   -> <<"nmcli", "dev", "wifi", "connect", ssid>>
      [] os = "Darwin"  -> <<"networksetup", "-setairportnetwork", "Wi-Fi", ssid>>

\* the SSIDs a caller may pass
Ssids == { <<"a">>, <<"b">> }

\* get_connector
get_connector ==
    /\ prog = "connect" /\ pc = "start"
    /\ IF osType \in Supported
       THEN pc' = "connect" /\ UNCHANGED exitCode
       ELSE Exit(1)
    /\ UNCHANGED <<unhandled, mainVars, netVars, fixedVars>>

\* WindowsWiFiConnector.connect: only netsh's output is looked at
WindowsWiFiConnector_connect ==
    /\ prog = "connect" /\ pc = "connect" /\ osType = "Windows"
    /\ \E ssid \in Ssids, r \in {"completed", "other", "absent"} :
          /\ cmds' = Append(cmds, ConnectorArgv("Windows", ssid))
          /\ connectRc' = r
          /\ IF r = "absent" THEN Exit(1) ELSE Exit(0)
    /\ UNCHANGED <<unhandled, mainVars, posts, probes, cursorHidden, report, stages, jq,
                   fixedVars>>

\* LinuxWiFiConnector.connect
LinuxWiFiConnector_connect ==
    /\ prog = "connect" /\ pc = "connect" /\ osType = "Linux"
    /\ \E ssid \in Ssids, r \in {"ok", "fail", "absent"} :
          /\ cmds' = Append(cmds, ConnectorArgv("Linux", ssid))
          /\ connectRc' = r
          /\ IF r = "ok" THEN Exit(0) ELSE Exit(1)
    /\ UNCHANGED <<unhandled, mainVars, posts, probes, cursorHidden, report, stages, jq,
                   fixedVars>>

\* MacOSWiFiConnector.connect: only CalledProcessError is caught
MacOSWiFiConnector_connect ==
    /\ prog = "connect" /\ pc = "connect" /\ osType = "Darwin"
    /\ \E ssid \in Ssids, r \in {"ok", "fail", "absent"} :
          /\ cmds' = Append(cmds, ConnectorArgv("Darwin", ssid))
          /\ connectRc' = r
          /\ CASE r = "ok"     -> Exit(0) /\ UNCHANGED unhandled
               [] r = "fail"   -> Exit(1) /\ UNCHANGED unhandled
               [] r = "absent" -> Die
    /\ UNCHANGED <<mainVars, posts, probes, cursorHidden, report, stages, jq, fixedVars>>

-----------------------------------------------------------------------------
(* The generated startup scripts, run on the host *)

LOGIN_URL ==
    "http://phc.prontonetworks.com/cgi-bin/authlogin?URI=http://detectportal.firefox.com/canonical.html"

\* the form the login POST carries
Payload(username, password) ==
    [url |-> LOGIN_URL, userId |-> username, password |-> password,
     serviceName |-> "ProntoAuthentication"]

\* how a POST can end, seen from curl: any HTTP answer, or no answer
CurlResults == {"http200", "http503", "transport"}

\* wifi_connect.ps1, as written by _generate_windows_script. The assignment
\*     $LOGIN_URL = "$LOGIN_URL = "http://...canonical.html"
\* is not PowerShell (a bare word directly after a closed string, then an
\* unbalanced quote): the parser rejects the file, powershell.exe reports the
\* parse error and ends with exit code 1 before the first statement runs.
WindowsScript_run ==
    /\ prog = "script" /\ pc = "start" /\ osType = "Windows"
    /\ Exit(1)
    /\ UNCHANGED <<unhandled, mainVars, netVars, fixedVars>>

\* the lines the POSIX scripts print when they stop while loading
NoCredsLine == "Credentials file not found: $CREDENTIALS_FILE"
NoJqLine    == "Error: jq is required but not installed. Please install jq."

\* the variant without the 'command -v jq' test: a bug the scripts do not have
LinuxScript_load_nojqtest ==
    /\ prog = "script" /\ pc = "start" /\ osType = "Linux"
    /\ cursorHidden' = TRUE
    /\ \E j \in {"present", "absent"} :
          /\ jq' = j
          /\ IF ~credFile.exists
             THEN report' = NoCredsLine /\ Exit(1) /\ UNCHANGED stages
             ELSE /\ stages' = Append(stages, "load")
                  /\ pc' = "connect"
                  /\ UNCHANGED <<exitCode, report>>
    /\ UNCHANGED <<unhandled, mainVars, posts, probes, cmds, connectRc, fixedVars>>

\* wifi_connect.sh (Linux): tput civis, the credentials file test, the jq
\* test, the three jq extractions
LinuxScript_load ==
    /\ prog = "script" /\ pc = "start" /\ osType = "Linux"
    /\ cursorHidden' = TRUE
    /\ \E j \in {"present", "absent"} :
          /\ jq' = j
          /\ CASE ~credFile.exists ->
                    report' = NoCredsLine /\ Exit(1) /\ UNCHANGED stages
               [] credFile.exists /\ j = "absent" ->
                    report' = NoJqLine /\ Exit(1) /\ UNCHANGED stages
               [] OTHER ->
                    /\ stages' = Append(stages, "load")
                    /\ pc' = "connect"
                    /\ UNCHANGED <<exitCode, report>>
    /\ UNCHANGED <<unhandled, mainVars, posts, probes, cmds, connectRc, fixedVars>>

\* the variant without the '|| { ...; exit 1 }' handler: a bug the Linux script
\* does not have
LinuxScript_connect_noabort ==
    /\ prog = "script" /\ pc = "connect" /\ osType = "Linux"
    /\ \E r \in {"ok", "fail", "absent"} :
          /\ cmds' = Append(cmds, <<"nmcli", "dev", "wifi", "connect", credFile.ssid>>)
          /\ connectRc' = r
          /\ pc' = "login"
    /\ stages' = Append(stages, "connect")
    /\ UNCHANGED <<exitCode, cursorHidden>>
    /\ UNCHANGED <<unhandled, mainVars, posts, probes, report, jq, fixedVars>>

\* nmcli dev wifi connect "$WIFI_SSID" || { echo ..; tput cnorm; exit 1 }
LinuxScript_connect ==
    /\ prog = "script" /\ pc = "connect" /\ osType = "Linux"
    /\ \E r \in {"ok", "fail", "absent"} :
          /\ cmds' = Append(cmds, <<"nmcli", "dev", "wifi", "connect", credFile.ssid>>)
          /\ connectRc' = r
          /\ IF r = "ok"
             THEN pc' = "login" /\ UNCHANGED <<exitCode, cursorHidden>>
             ELSE cursorHidden' = FALSE /\ Exit(1)
    /\ stages' = Append(stages, "connect")
    /\ UNCHANGED <<unhandled, mainVars, posts, probes, report, jq, fixedVars>>

\* { curl -X POST ... } && echo "Connected successfully!" || echo "Failed ..."
LinuxScript_login ==
    /\ prog = "script" /\ pc = "login" /\ osType = "Linux"
    /\ \E c \in CurlResults :
          /\ posts' = Append(posts, Payload(credFile.username, credFile.password))
          /\ report' = IF c = "transport"
                       THEN "Failed to connect. Please check your credentials or network."
                       ELSE "Connected successfully!"
    /\ effects' = effects \cup {"POST"}
    /\ stages' = stages \o <<"login", "report">>
    /\ pc' = "end"
    /\ UNCHANGED <<exitCode, unhandled, fsVars, regCount, firstEntry, setupErr, regPre,
                   regResult, loadRc, setupRet, probes, cmds, connectRc, cursorHidden,
                   jq, fixedVars>>

\* tput cnorm, the script's last command
LinuxScript_end ==
    /\ prog = "script" /\ pc = "end" /\ osType = "Linux"
    /\ cursorHidden' = FALSE
    /\ Exit(0)
    /\ UNCHANGED <<unhandled, mainVars, posts, probes, cmds, connectRc, report, stages,
                   jq, fixedVars>>

\* wifi_connect.sh (macOS): the same opening as the Linux script
MacScript_load ==
    /\ prog = "script" /\ pc = "start" /\ osType = "Darwin"
    /\ cursorHidden' = TRUE
    /\ \E j \in {"present", "absent"} :
          /\ jq' = j
          /\ CASE ~credFile.exists ->
                    report' = NoCredsLine /\ Exit(1) /\ UNCHANGED stages
               [] credFile.exists /\ j = "absent" ->
                    report' = NoJqLine /\ Exit(1) /\ UNCHANGED stages
               [] OTHER ->
                    /\ stages' = Append(stages, "load")
                    /\ pc' = "connect"
                    /\ UNCHANGED <<exitCode, report>>
    /\ UNCHANGED <<unhandled, mainVars, posts, probes, cmds, connectRc, fixedVars>>

\* networksetup -setairportnetwork "$WIFI_SSID"; sleep 5
\* (no interface argument, and the exit status is not looked at)
MacScript_connect ==
    /\ prog = "script" /\ pc = "connect" /\ osType = "Darwin"
    /\ \E r \in {"ok", "fail", "absent"} :
          /\ cmds' = Append(cmds, <<"networksetup", "-setairportnetwork", credFile.ssid>>)
          /\ connectRc' = r
    /\ stages' = Append(stages, "connect")
    /\ pc' = "login"
    /\ UNCHANGED <<exitCode, unhandled, mainVars, posts, probes, cursorHidden, report,
                   jq, fixedVars>>

\* { curl -X POST ... } && echo "Connected successfully!" || echo "Failed ..."
MacScript_login ==
    /\ prog = "script" /\ pc = "login" /\ osType = "Darwin"
    /\ \E c \in CurlResults :
          /\ posts' = Append(posts, Payload(credFile.username, credFile.password))
          /\ report' = IF c = "transport"
                       THEN "Failed to connect. Please check your credentials or network."
                       ELSE "Connected successfully!"
    /\ effects' = effects \cup {"POST"}
    /\ stages' = stages \o <<"login", "report">>
    /\ pc' = "end"
    /\ UNCHANGED <<exitCode, unhandled, fsVars, regCount, firstEntry, setupErr, regPre,
                   regResult, loadRc, setupRet, probes, cmds, connectRc, cursorHidden,
                   jq, fixedVars>>

\* tput cnorm, the script's last command
MacScript_end ==
    /\ prog = "script" /\ pc = "end" /\ osType = "Darwin"
    /\ cursorHidden' = FALSE
    /\ Exit(0)
    /\ UNCHANGED <<unhandled, mainVars, posts, probes, cmds, connectRc, report, stages,
                   jq, fixedVars>>

\* NeedsLogin is called on what the GET brought back
NeedsLogin_call ==
    /\ probes = 0
    /\ probes' = 1
    /\ needsLogin' = NeedsLogin(probeResp)
    /\ UNCHANGED <<hostVars, prog, pc, exitCode, unhandled, effects, setupErr, regPre,
                   regResult, loadRc, cmds, connectRc, cursorHidden, report, stages, jq,
                   setupRet, posts, loginVars>>

Next ==
    \/ \E p \in {"main", "connect", "script"} : Start(p)
    \/ UserManager_init
    \/ main_menu
    \/ create_new_user
    \/ edit_existing_user
    \/ setup_startup
    \/ get_connector
    \/ WindowsWiFiConnector_connect
    \/ LinuxWiFiConnector_connect
    \/ MacOSWiFiConnector_connect
    \/ WindowsScript_run
    \/ LinuxScript_load
    \/ LinuxScript_connect
    \/ LinuxScript_login
    \/ LinuxScript_end
    \/ MacScript_load
    \/ MacScript_connect
    \/ MacScript_login
    \/ MacScript_end

Spec == Init /\ [][Next]_vars

\* the answers NeedsLogin is tried on: padding, word, padding, under each status
ProbePads  == { <<>>, <<" ">>, <<"\n">> }
ProbeWords == { SUCCESS,
                <<"S", "U", "C", "C", "E", "S", "S">>,
                <<"S", "u", "c", "c", "e", "s", "s">>,
                <<"s", "u", "c", "c", "e", "s">>,
                <<"l", "o", "g", "i", "n">>,
                <<>> }
ProbeInputs ==
    { [kind |-> "throws", status |-> 0, body |-> <<>>] } \cup
    { [kind |-> "http", status |-> st, body |-> l \o w \o r] :
        st \in {200, 204}, l \in ProbePads, w \in ProbeWords, r \in ProbePads } \cup
    { [kind |-> "throws", status |-> st, body |-> w] :
        st \in {302, 503}, w \in ProbeWords }

ProbeInit ==
    /\ osType = "Windows"
    /\ probeResp \in ProbeInputs
    /\ credDir = FALSE
    /\ credFile = NoCreds
    /\ scriptsDir = FALSE
    /\ scriptFile = NoFile
    /\ autostart = NoFile
    /\ agentLoaded = FALSE
    /\ runs = 0
    /\ regCount = 0
    /\ firstEntry = NoFile
    /\ InitRun
    /\ LoginIdle

ProbeNext == NeedsLogin_call

ProbeSpec == ProbeInit /\ [][ProbeNext]_vars



-----------------------------------------------------------------------------
(* net/portalAuth.py: login(username, password) and its Spinner thread *)

\* the arguments a caller may pass (login validates nothing)
LoginArgs == { <<>>, <<"a">>, <<"b">> }

\* how requests.post can end: a response with status 200 or another status,
\* a requests.exceptions.RequestException (DNS, refused, timeout), or an
\* exception of another class (KeyboardInterrupt, MemoryError, ...)
PostResults == {"http200", "http503", "transport", "other"}

\* Spinner.spinner_cycle has four glyphs
CycleLen == 4

restVars == <<hostVars, runVars>>

\* login is called: payload built, Spinner() made, spinner.start()
login_call ==
    /\ lpc \in {"idle", "returned"}
    /\ logins < MaxLogins
    /\ logins' = logins + 1
    /\ \E u \in LoginArgs, p \in LoginArgs : largs' = [username |-> u, password |-> p]
    /\ posts' = <<>>
    /\ busy' = TRUE
    /\ spinPc' = "check"
    /\ spinIdx' = 0
    /\ out' = "none"
    /\ doneLine' = FALSE
    /\ postResult' = "none"
    /\ loginRet' = "none"
    /\ spun' = FALSE
    /\ lateFrames' = 0
    /\ lpc' = "post"
    /\ UNCHANGED <<retOf, restVars>>

\* a login that posts again after a failure: a bug the code does not have
requests_post_retry ==
    /\ lpc = "post"
    /\ \E r \in PostResults :
          /\ postResult' = r
          /\ posts' = IF r \in {"transport", "http503"}
                      THEN posts \o <<Payload(largs.username, largs.password),
                                      Payload(largs.username, largs.password)>>
                      ELSE Append(posts, Payload(largs.username, largs.password))
          /\ lpc' = IF r = "other" THEN "raised" ELSE "stop"
    /\ UNCHANGED <<largs, busy, spinPc, spinIdx, out, doneLine, loginRet, logins,
                   retOf, spun, lateFrames, restVars>>

\* response = requests.post(LOGIN_URL, data=payload, timeout=10)
\* An exception that is no RequestException leaves login at once.
requests_post ==
    /\ lpc = "post"
    /\ \E r \in PostResults :
          /\ postResult' = r
          /\ posts' = Append(posts, Payload(largs.username, largs.password))
          /\ lpc' = IF r = "other" THEN "raised" ELSE "stop"
    /\ UNCHANGED <<largs, busy, spinPc, spinIdx, out, doneLine, loginRet, logins,
                   retOf, spun, lateFrames, restVars>>

\* Spinner.stop, first statement: self.busy = False
Spinner_stop ==
    /\ lpc = "stop"
    /\ busy' = FALSE
    /\ lpc' = "join"
    /\ UNCHANGED <<largs, spinPc, spinIdx, out, doneLine, postResult, loginRet,
                   logins, retOf, posts, spun, lateFrames, restVars>>

\* Spinner.stop without the join: a bug the code does not have
Spinner_stop_nojoin ==
    /\ lpc = "join"
    /\ doneLine' = TRUE
    /\ out' = "main"
    /\ lpc' = "report"
    /\ UNCHANGED <<largs, busy, spinPc, spinIdx, postResult, loginRet, logins,
                   retOf, posts, spun, lateFrames, restVars>>

\* Spinner.stop, the rest: spinner_thread.join(), then the completion line
Spinner_stop_join ==
    /\ lpc = "join"
    /\ spinPc = "dead"
    /\ doneLine' = TRUE
    /\ out' = "main"
    /\ lpc' = "report"
    /\ UNCHANGED <<largs, busy, spinPc, spinIdx, postResult, loginRet, logins,
                   retOf, posts, spun, lateFrames, restVars>>

\* what login returns for each way the POST ended
LoginReturn(r) == IF r = "http200" THEN "True" ELSE "False"

\* the status line, and login's return
login_return ==
    /\ lpc = "report"
    /\ loginRet' = LoginReturn(postResult)
    /\ retOf' = CASE postResult = "http503" ->
                        [retOf EXCEPT !["non200"] = @ \cup {loginRet'}]
                  [] postResult = "transport" ->
                        [retOf EXCEPT !["transport"] = @ \cup {loginRet'}]
                  [] OTHER -> retOf
    /\ out' = "main"
    /\ lpc' = "returned"
    /\ UNCHANGED <<largs, busy, spinPc, spinIdx, doneLine, postResult, logins,
                   posts, spun, lateFrames, restVars>>

\* a spin that never looks at the flag again: a bug the code does not have
Spinner_spin_test_blind ==
    /\ spinPc = "check"
    /\ spinPc' = "write" /\ spinIdx' = 0
    /\ UNCHANGED <<lpc, largs, busy, out, doneLine, postResult, loginRet, logins,
                   retOf, posts, spun, lateFrames, restVars>>

\* Spinner.spin: the test of 'while self.busy'
Spinner_spin_test ==
    /\ spinPc = "check"
    /\ IF busy
       THEN spinPc' = "write" /\ spinIdx' = 0
       ELSE spinPc' = "dead" /\ UNCHANGED spinIdx
    /\ UNCHANGED <<lpc, largs, busy, out, doneLine, postResult, loginRet, logins,
                   retOf, posts, spun, lateFrames, restVars>>

\* Spinner.spin: one turn of 'for char in self.spinner_cycle': write, flush, sleep
Spinner_spin_frame ==
    /\ spinPc = "write"
    /\ out' = "spinner"
    /\ spun' = TRUE
    /\ lateFrames' = IF ~busy /\ lateFrames <= CycleLen THEN lateFrames + 1
                      ELSE lateFrames
    /\ IF spinIdx + 1 < CycleLen
       THEN spinIdx' = spinIdx + 1 /\ UNCHANGED spinPc
       ELSE spinIdx' = 0 /\ spinPc' = "check"
    /\ UNCHANGED <<lpc, largs, busy, doneLine, postResult, loginRet, logins,
                   retOf, posts, restVars>>

\* login does not touch the host: any one will do
LoginHost ==
    /\ osType = "Linux"
    /\ probeResp = [kind |-> "throws", status |-> 0, body |-> <<>>]
    /\ credDir = FALSE
    /\ credFile = NoCreds
    /\ scriptsDir = FALSE
    /\ scriptFile = NoFile
    /\ autostart = NoFile
    /\ agentLoaded = FALSE
    /\ runs = 0
    /\ regCount = 0
    /\ firstEntry = NoFile

LoginInit == LoginHost /\ InitRun /\ LoginIdle

LoginNext ==
    \/ login_call
    \/ requests_post
    \/ Spinner_stop
    \/ Spinner_stop_join
    \/ login_return
    \/ Spinner_spin_test
    \/ Spinner_spin_frame

LoginSpec == LoginInit /\ [][LoginNext]_vars

\* the spinner thread is a started thread of its own: the scheduler lets it
\* run, and time.sleep(self.delay) returns
FairLoginSpec ==
    /\ LoginInit /\ [][LoginNext]_vars
    /\ WF_vars(Spinner_spin_test)
    /\ WF_vars(Spinner_spin_frame)


-----------------------------------------------------------------------------
(* Properties *)

\* C1: in a run of a generated startup script on a network whose probe URL
\* answers 'no login needed' (HTTP 200, trimmed body 'success'), no login
\* POST is issued.  (Spec; fails: the Linux and macOS scripts never probe and
\* always post.)
C1_NoPostWithoutPortal ==
    (prog = "script" /\ ~NeedsLogin(probeResp)) => posts = <<>>

\* C2: whichever way the POST ends, once login is left (by return or by an
\* exception) the spinner is stopped: busy is false, the spinner thread has
\* terminated and the 'Login Attempted' line is written.  (LoginSpec; fails
\* for an exception that is no RequestException.)
C2_SpinnerStoppedWhenLoginLeft ==
    lpc \in {"returned", "raised"} => (~busy /\ spinPc = "dead" /\ doneLine)

\* C3: when main's process has ended, its exit code is non-zero if a setup step
\* failed (unsupported OS, scripts directory, script file, autostart entry),
\* and zero if none failed and no exception went uncaught.  (Spec; fails: a
\* failed mkdir or write ends with exit code 0.)
C3_ExitCodeTellsSetupFailure ==
    (prog = "main" /\ pc = "exited") =>
        /\ setupErr # {} => exitCode # 0
        /\ (setupErr = {} /\ ~unhandled) => exitCode = 0

\* C4: on Linux, once the native join command (nmcli) has exited non-zero, the
\* run is over with a non-zero exit code and has issued no probe and no login
\* POST, in LinuxWiFiConnector.connect and in the generated script.  (Spec)
C4_LinuxConnectFailureIsHard ==
    (osType = "Linux" /\ prog \in {"connect", "script"} /\ connectRc = "fail") =>
        /\ pc = "exited"
        /\ exitCode # 0
        /\ posts = <<>>
        /\ probes = 0

\* a Linux script run in which nmcli was invoked, failed, and the script exited
C4_Witness ==
    /\ osType = "Linux" /\ prog = "script" /\ connectRc = "fail"
    /\ Len(cmds) = 1 /\ cmds[1][1] = "nmcli"
    /\ pc = "exited" /\ exitCode = 1

\* C5: on macOS, once the native join command (networksetup) has exited
\* non-zero, no login POST is issued and the run ends with a failure exit, in
\* MacOSWiFiConnector.connect and in the generated script.  (Spec; fails: the
\* script does not look at the exit status.)
C5_MacConnectFailureIsHard ==
    (osType = "Darwin" /\ prog \in {"connect", "script"} /\ connectRc = "fail") =>
        /\ posts = <<>>
        /\ pc = "exited" => exitCode # 0

\* C6: one call of login issues exactly one POST, to the fixed URL, with the
\* three fields userId = username, password = password, serviceName =
\* 'ProntoAuthentication'; never more than one, however the POST ends.
\* (LoginSpec)
C6_ExactlyOnePost ==
    /\ Len(posts) <= 1
    /\ lpc \in {"stop", "join", "report", "returned", "raised"} =>
          /\ Len(posts) = 1
          /\ DOMAIN posts[1] = {"url", "userId", "password", "serviceName"}
          /\ posts[1].url = LOGIN_URL
          /\ posts[1].userId = largs.username
          /\ posts[1].password = largs.password
          /\ posts[1].serviceName = "ProntoAuthentication"

\* a call with distinct username and password has returned after a transport
\* failure, having posted once
C6_Witness ==
    /\ lpc = "returned" /\ postResult = "transport"
    /\ largs.username = <<"a">> /\ largs.password = <<"b">>
    /\ Len(posts) = 1

\* C7: no value that login returned after a transport-level failure is a value
\* it returned after a non-200 response.  (LoginSpec; fails: both return
\* False.)
C7_TransportDistinctFromNon200 ==
    retOf["transport"] \cap retOf["non200"] = {}

\* C8: on an unsupported OS, a run of main creates no directory, writes no
\* file and sends no request.  (Spec; fails: the menu runs first, creating
\* ~/.wifi_auto_login and writing credentials.json.)
C8_UnsupportedOsNoSideEffects ==
    (prog = "main" /\ osType \notin Supported) =>
        (effects = {} /\ posts = <<>> /\ probes = 0)

\* C9: however often the registration has run, the autostart store holds one
\* entry, with the content and mode the first registration left; and a
\* registration that found the entry present, with no system call failing,
\* reports success.  (Spec)
C9_RegistrationIdempotent ==
    /\ autostart.exists => autostart.content = <<EntryText(osType)>>
    /\ regCount >= 1 => autostart = firstEntry
    /\ (prog = "main" /\ pc = "exited" /\ regPre /\ setupErr = {}
            /\ loadRc # "absent" /\ regResult # "none")
         => regResult = "True"

\* the second registration has run over the entry of the first, and succeeded
C9_Witness ==
    /\ prog = "main" /\ pc = "exited"
    /\ regCount = 2 /\ regPre /\ regResult = "True"
    /\ autostart.exists

\* C10: the stored credentials have ssid, username and password non-empty.
\* (Spec; fails: edit_existing_user stores a blank answer.)
C10_StoredCredentialsNonEmpty ==
    credFile.exists =>
        (credFile.ssid # <<>> /\ credFile.username # <<>> /\ credFile.password # <<>>)


\* C11: NeedsLogin returns true exactly when the GET throws or times out, or
\* the status is not 200, or the trimmed body is not 'success'.  (ProbeSpec;
\* fails: -ne ignores case, a 200 answer 'SUCCESS' gives false.)
C11_NeedsLoginExact ==
    probes = 1 =>
        (needsLogin <=> \/ probeResp.kind = "throws"
                        \/ probeResp.status # 200
                        \/ Trim(probeResp.body) # SUCCESS)

\* C12: a run of the generated script that found its credentials (and, on
\* POSIX, jq) goes through load, connect, probe, login if the probe says so,
\* report, in this order, on each of the three systems.  (Spec; fails: the
\* Windows script runs no stage, the POSIX scripts never probe.)
C12_SameStagesOnEveryOs ==
    (prog = "script" /\ pc = "exited" /\ credFile.exists /\ jq # "absent"
        /\ connectRc \in {"none", "ok"})
      => stages = <<"load", "connect", "probe">>
                    \o (IF NeedsLogin(probeResp) THEN <<"login">> ELSE <<>>)
                    \o <<"report">>

\* C13: the thread that called login writes to the terminal only once the
\* spinner thread has terminated; so no write of it falls between two writes
\* of the spinner.  (LoginSpec)
C13_MainWritesAfterSpinnerDead ==
    /\ out = "main" => spinPc = "dead"
    /\ doneLine => spinPc = "dead"

\* login has written its status line after a spinner that had written frames
C13_Witness ==
    /\ lpc = "returned" /\ out = "main" /\ doneLine
    /\ spun /\ spinPc = "dead"

\* C14: in the Linux and macOS scripts, when jq is absent the run ends with a
\* message and a non-zero exit code, with no jq extraction, no connect command
\* and no login request.  (Spec)
C14_NoJqStopsBeforeUse ==
    (prog = "script" /\ osType \in {"Linux", "Darwin"} /\ jq = "absent")
      => /\ pc = "exited" /\ exitCode # 0
         /\ report \in {NoCredsLine, NoJqLine}
         /\ stages = <<>> /\ cmds = <<>> /\ posts = <<>>

\* the script found credentials but no jq, and stopped
C14_Witness ==
    /\ prog = "script" /\ osType \in {"Linux", "Darwin"}
    /\ credFile.exists /\ jq = "absent"
    /\ pc = "exited" /\ report = NoJqLine

C16_ConnectRaisesNothing ==
    prog = "connect" => ~unhandled

\* C17: on macOS, when the plist was written and 'launchctl load' failed
\* (non-zero exit, or launchctl absent), the plist is on disk and the
\* registration reports success.  (Spec; fails: with launchctl absent the
\* registration returns False.)
C17_LoadFailureNotFatal ==
    (osType = "Darwin" /\ prog = "main" /\ pc = "exited"
        /\ loadRc \in {"nonzero", "absent"})
      => (autostart.exists /\ regResult = "True")

\* C18: the connect step of the generated script invokes the command line of
\* the connector for that OS, and ends the run with a non-zero code when the
\* command exits non-zero, as the connector does.  (Spec; fails: the macOS
\* script passes no interface and ignores the exit status.)
C18_ScriptConnectAsConnector ==
    (prog = "script" /\ connectRc # "none")
      => /\ cmds = <<ConnectorArgv(osType, credFile.ssid)>>
         /\ connectRc = "fail" => (pc = "exited" /\ exitCode = 1)

\* C19: StartupGenerator.setup_startup returns True only if the scripts
\* directory exists, the script was written and the autostart entry was
\* created.  (Spec; fails: _create_<os>_startup swallows its failure.)
C19_SetupTrueOnlyIfEntryCreated ==
    setupRet = "True" =>
        /\ scriptsDir /\ scriptFile.exists /\ autostart.exists
        /\ regResult = "True"

\* C20: when a generated script has ended, the cursor is visible.  (Spec;
\* fails: the exits for a missing credentials file and a missing jq leave it
\* hidden.)
C20_CursorVisibleAtExit ==
    (prog = "script" /\ pc = "exited") => ~cursorHidden


\* C21: a run of main installs the autostart script and the startup entry only
\* if the credentials file exists.  (Spec; fails: setup_startup runs after the
\* menu whatever the menu did.)
C21_InstallOnlyWithCredentials ==
    (prog = "main" /\ effects \cap {"write script", "write autostart entry"} # {})
      => credFile.exists

\* C22: once stop() has cleared busy the spinner writes at most four more
\* frames; stop() has gone past its join only when the spinner thread is dead;
\* and from the join on, the spinner thread does die.  (FairLoginSpec)
C22_SpinnerEndsAfterStop ==
    /\ [](lateFrames <= CycleLen)
    /\ [](lpc \in {"report", "returned"} => spinPc = "dead")
    /\ (lpc = "join" ~> spinPc = "dead")

\* busy was cleared at the start of a cycle: four late frames, then the thread
\* ended and stop() returned
C22_Witness ==
    /\ lateFrames = CycleLen
    /\ spinPc = "dead"
    /\ lpc = "returned"

=============================================================================
